---- MODULE Spec2Model ----
(***************************************************************************)
(* Model of server.js (src/unnamed/part_001): the open-wa driver server.   *)
(*                                                                         *)
(* State: the two module-level variables `client` and `clientReady`, the   *)
(* position of initializeClient(), and one record per HTTP request with    *)
(* its body, the transport calls it issued and the response it got.        *)
(*                                                                         *)
(* Strings that the code inspects character by character (the recipient    *)
(* descriptor and the chat identifier) are sequences of one-character      *)
(* strings; strings the code only tests for emptiness and passes on are    *)
(* TLA+ strings.  A request-body field is a record [present, val]: a       *)
(* field absent from the JSON body has present = FALSE.                    *)
(***************************************************************************)
EXTENDS Integers, Sequences, FiniteSets, TLC

VARIABLES client, clientReady, initPc, reqs, nextReq

vars == <<client, clientReady, initPc, reqs, nextReq>>

(* ------------------------------ bounds --------------------------------- *)

\* number of HTTP requests in one behaviour
MaxReq == 2
\* longest options array of a /send_poll body
MaxOptions == 4

(* ----------------------------- constants ------------------------------- *)

\* `options.length <= 3`
MaxButtons == 3

NULL == "null"
HANDLE == "client"

NotReadyMessage == "WhatsApp client not ready"
MissingMessageFields == "Missing contact or message"
MissingPollFields == "Missing required fields"

\* messages of the errors the transport may raise
ErrMsgs == {"Session closed", "Invalid chat id"}

(* -------------------------- request bodies ----------------------------- *)

UndefStr == [present |-> FALSE, val |-> ""]
UndefSeq == [present |-> FALSE, val |-> <<>>]
Val(v) == [present |-> TRUE, val |-> v]

Digits == {"0", "1", "2", "3", "4", "5", "6", "7", "8", "9"}

CUS == <<"@", "c", ".", "u", "s">>
GUS == <<"@", "g", ".", "u", "s">>

\* recipient descriptors: a formatted phone number, a display name without
\* digits, a group identifier, a 1:1 identifier
PhoneDesc == <<"+", "3", "1", " ", "6">>
NameDesc == <<"M", "u", "m">>
GroupDesc == <<"1", "2", "-", "3">> \o GUS
DirectDesc == <<"4", "5">> \o CUS

Descriptors == {PhoneDesc, NameDesc, GroupDesc, DirectDesc}

Labels == <<"Yes", "No", "Maybe", "Later", "Never", "Other">>

OptionLists == {SubSeq(Labels, 1, n) : n \in 0..MaxOptions}

\* bodies of POST /send_message: every valid one, and one per way of being
\* invalid
MessageBodies ==
    {[contact |-> Val(d), text |-> Val("Hello!")] : d \in Descriptors}
    \cup {[contact |-> UndefSeq, text |-> Val("Hello!")],
          [contact |-> Val(<<>>), text |-> Val("Hello!")],
          [contact |-> Val(PhoneDesc), text |-> UndefStr],
          [contact |-> Val(PhoneDesc), text |-> Val("")],
          [contact |-> UndefSeq, text |-> UndefStr]}

\* bodies of POST /send_poll
PollBodies ==
    {[contact |-> Val(d), text |-> Val("Pizza?"), options |-> Val(o)] :
        d \in Descriptors, o \in OptionLists}
    \cup {[contact |-> UndefSeq, text |-> Val("Pizza?"), options |-> Val(SubSeq(Labels, 1, 2))],
          [contact |-> Val(<<>>), text |-> Val("Pizza?"), options |-> Val(SubSeq(Labels, 1, 2))],
          [contact |-> Val(GroupDesc), text |-> UndefStr, options |-> Val(SubSeq(Labels, 1, 2))],
          [contact |-> Val(GroupDesc), text |-> Val(""), options |-> Val(SubSeq(Labels, 1, 2))],
          [contact |-> Val(PhoneDesc), text |-> Val("Pizza?"), options |-> UndefSeq],
          [contact |-> UndefSeq, text |-> UndefStr, options |-> UndefSeq],
          [contact |-> Val(DirectDesc), text |-> Val("Lunch?"), options |-> Val(SubSeq(Labels, 1, 4))]}

(* ------------------------- transport results --------------------------- *)

\* a chat as getAllChats returns it; meta = "none": no groupMetadata,
\* "noparts": groupMetadata without participants, "parts": n participants
Chat(isGroup, name, id, meta, n) ==
    [isGroup |-> isGroup, name |-> name, id |-> id, meta |-> meta, n |-> n]

ChatLists ==
    {<<>>,
     <<Chat(TRUE, "Family", "12-3@g.us", "parts", 2),
       Chat(FALSE, "Mum", "45@c.us", "none", 0),
       Chat(TRUE, "Work", "67-8@g.us", "none", 0)>>,
     <<Chat(TRUE, "Work", "67-8@g.us", "noparts", 0),
       Chat(TRUE, "Family", "12-3@g.us", "parts", 0)>>}

(* --------------------------- pure helpers ------------------------------ *)

\* `contact.includes('@')`
Includes(s, c) == \E i \in 1..Len(s) : s[i] = c

\* `chatId.endsWith('@g.us')`
EndsWith(s, suffix) ==
    /\ Len(s) >= Len(suffix)
    /\ SubSeq(s, Len(s) - Len(suffix) + 1, Len(s)) = suffix

IsDigit(c) == c \in Digits

\* variant: the replace without the g flag removes the first match only
StripFirstNonDigit(s) ==
    LET bad == {i \in 1..Len(s) : ~IsDigit(s[i])}
    IN IF bad = {} THEN s
       ELSE LET k == CHOOSE i \in bad : \A j \in bad : i <= j
            IN SubSeq(s, 1, k - 1) \o SubSeq(s, k + 1, Len(s))

\* `contact.replace(/[^\d]/g, '')`
StripNonDigits(s) == SelectSeq(s, IsDigit)

\* !v for a string field: undefined and '' are falsy
Falsy(v) == ~v.present \/ v.val = ""

\* !v for the recipient descriptor (a string held as characters)
FalsyChars(v) == ~v.present \/ v.val = <<>>

\* variant: `!options` alone
NoOptionsMissingOnly(v) == ~v.present

\* `!options || options.length === 0`: an empty array is truthy
NoOptions(v) == ~v.present \/ Len(v.val) = 0

\* `opt${i + 1}` for the 0-based index i + 1 = k
OptId(k) == "opt" \o ToString(k)

(* ------------------------------ the gate ------------------------------- *)

\* variant: the gate tests the handle only
GateClientOnly == client # NULL

\* the negation of `!clientReady || !client`
GateOpen == clientReady /\ client # NULL

\* the negation of `!clientReady` (/open_whatsapp)
OpenGate == clientReady

\* the session state of the specification, read off initializeClient
SessionState ==
    CASE initPc = "notstarted" -> "Uninitialized"
      [] initPc = "creating" -> "Initializing"
      [] initPc = "ready" -> "Ready"
      [] initPc = "failed" -> "Failed"

(* ----------------------- requests and responses ------------------------ *)

NoCall == <<>>

Call(prim, chatId, text, options, buttons, sections, title, footer) ==
    [prim |-> prim, chatId |-> chatId, text |-> text, options |-> options,
     buttons |-> buttons, sections |-> sections, title |-> title,
     footer |-> footer]

IdleReq ==
    [pc |-> "idle", endpoint |-> "", contact |-> UndefSeq, text |-> UndefStr,
     options |-> UndefSeq, seen |-> "", calls |-> NoCall, nresp |-> 0,
     code |-> 0, status |-> "", message |-> "", method |-> "",
     ready |-> FALSE, groups |-> <<>>, outcome |-> "", error |-> "",
     result |-> <<>>]

\* a request as it enters its handler
Arrive(endpoint, contact, text, options) ==
    [IdleReq EXCEPT !.endpoint = endpoint, !.contact = contact,
                    !.text = text, !.options = options,
                    !.seen = SessionState]

\* res.status(code).json({status, message}) and return
Respond(q, code, status, message) ==
    [q EXCEPT !.pc = "done", !.nresp = @ + 1, !.code = code,
              !.status = status, !.message = message]

\* `return res.status(500).json({ status: 'error', message: 'WhatsApp client not ready' })`
NotReady(q) == Respond(q, 500, "error", NotReadyMessage)

\* `await client.<prim>(...)`: the call is issued and the handler suspends
Await(q, call) == [q EXCEPT !.pc = "awaiting", !.calls = Append(@, call)]

\* the awaited call of q settles: outcome "returned", or "raised" with the
\* message of the error
Settle(q, outcome, e) == [q EXCEPT !.outcome = outcome, !.error = e]

\* variant: the catch block answers with a fixed message
ErrorResponseGeneric(q, e) == Respond(q, 500, "error", "Internal server error")

\* the catch block: `res.status(500).json({ status: 'error', message: error.message })`
ErrorResponse(q, e) == Respond(q, 500, "error", e)

(* ----------------------- identifier resolution ------------------------- *)

\* /send_message: `${contact.replace(/[^\d]/g, '')}@c.us`
MessageChatId(contact) == StripNonDigits(contact) \o CUS

\* /send_poll: `contact.includes('@') ? contact : `${contact.replace(/[^\d]/g, '')}@c.us``
PollChatId(contact) ==
    IF Includes(contact, "@") THEN contact ELSE StripNonDigits(contact) \o CUS

(* ------------------------- strategy selection -------------------------- *)

\* variant: the option count is tested before the group suffix
StrategyCountFirst(chatId, options) ==
    IF Len(options) <= MaxButtons THEN "buttons"
    ELSE IF EndsWith(chatId, GUS) THEN "poll"
    ELSE "list"

\* variant: `options.length < 3`
StrategyOffByOne(chatId, options) ==
    IF EndsWith(chatId, GUS) THEN "poll"
    ELSE IF Len(options) < MaxButtons THEN "buttons"
    ELSE "list"

\* the branch of /send_poll taken for (chatId, options)
Strategy(chatId, options) ==
    IF EndsWith(chatId, GUS) THEN "poll"
    ELSE IF Len(options) <= MaxButtons THEN "buttons"
    ELSE "list"


\* variant: the identifier is built from the 0-based index
ButtonsZeroBased(options) ==
    [i \in 1..Len(options) |-> [id |-> OptId(i - 1), text |-> options[i]]]

\* `options.map((opt, i) => ({ id: `opt${i + 1}`, text: opt }))`
Buttons(options) ==
    [i \in 1..Len(options) |-> [id |-> OptId(i), text |-> options[i]]]


\* variant: the rows are built in reverse order
RowsReversed(options) ==
    [i \in 1..Len(options) |->
        [rowId |-> OptId(i), title |-> options[Len(options) + 1 - i]]]

\* `options.map((opt, i) => ({ rowId: `opt${i + 1}`, title: opt }))`
Rows(options) ==
    [i \in 1..Len(options) |-> [rowId |-> OptId(i), title |-> options[i]]]

\* `[{ title: 'Options', rows }]`
Sections(options) == <<[title |-> "Options", rows |-> Rows(options)]>>

\* the transport call of /send_poll
PollCall(chatId, question, options) ==
    CASE Strategy(chatId, options) = "poll" ->
           Call("sendPoll", chatId, question, options, <<>>, <<>>, "", "")
      [] Strategy(chatId, options) = "buttons" ->
           Call("sendButtons", chatId, question, <<>>, Buttons(options), <<>>,
                "Poll", "Reply by tapping a button")
      [] Strategy(chatId, options) = "list" ->
           Call("sendListMessage", chatId, question, <<>>, <<>>,
                Sections(options), "Poll", "Choose an option")

\* the method tag of the response sent after the call of primitive prim
MethodOf(prim) ==
    CASE prim = "sendPoll" -> "poll"
      [] prim = "sendButtons" -> "buttons"
      [] prim = "sendListMessage" -> "list"
      [] OTHER -> ""

(* -------------------------- group enumeration -------------------------- *)

\* `g.groupMetadata?.participants?.length || 0`
Members(c) == IF c.meta = "parts" THEN c.n ELSE 0

IsGroup(c) == c.isGroup


\* variant: the chats are mapped without the isGroup filter
GroupsNoFilter(chats) ==
    [i \in 1..Len(chats) |->
        [name |-> chats[i].name, id |-> chats[i].id,
         members |-> Members(chats[i])]]

\* `chats.filter(c => c.isGroup).map(g => ({ name, id, members }))`
Groups(chats) ==
    LET gs == SelectSeq(chats, IsGroup)
    IN [i \in 1..Len(gs) |->
          [name |-> gs[i].name, id |-> gs[i].id, members |-> Members(gs[i])]]

(* ------------------------ the request handlers ------------------------- *)
(* A handler runs without interruption up to its first await, so the gate, *)
(* the validation, the resolution and the issue of the transport call are  *)
(* one step; the completion of the call is a later step.                   *)


\* variant: readiness is reported from the handle
StatusStepFromHandle(q) ==
    [Respond(q, 200, "ok", "") EXCEPT !.ready = (client # NULL)]

\* app.get('/status')
StatusStep(q) ==
    [Respond(q, 200, "ok", "") EXCEPT !.ready = clientReady]

\* app.get('/get_groups') up to `await client.getAllChats()`
GetGroupsStep(q) ==
    IF ~GateOpen THEN NotReady(q)
    ELSE Await(q, Call("getAllChats", <<>>, "", <<>>, <<>>, <<>>, "", ""))

\* app.post('/open_whatsapp')
OpenWhatsappStep(q) ==
    IF ~OpenGate THEN NotReady(q) ELSE Respond(q, 200, "ok", "")

\* `!contact || !message`
MessageInvalid(q) == FalsyChars(q.contact) \/ Falsy(q.text)

\* `!contact || !question || !options || options.length === 0`
PollInvalid(q) ==
    FalsyChars(q.contact) \/ Falsy(q.text) \/ NoOptions(q.options)

\* `await client.sendText(chatId, message)`
TextCall(q) ==
    Call("sendText", MessageChatId(q.contact.val), q.text.val,
         <<>>, <<>>, <<>>, "", "")


\* variant: the validation branch answers 400 without `return`, so the
\* handler goes on to the send
SendMessageStepNoReturn(q) ==
    IF ~GateOpen THEN NotReady(q)
    ELSE IF MessageInvalid(q)
         THEN Await(Respond(q, 400, "error", MissingMessageFields), TextCall(q))
    ELSE Await(q, TextCall(q))

\* variant: a send whose call was already issued by some request is
\* answered without a second call
SendMessageStepDedup(q) ==
    IF ~GateOpen THEN NotReady(q)
    ELSE IF MessageInvalid(q)
         THEN Respond(q, 400, "error", MissingMessageFields)
    ELSE IF \E r \in DOMAIN reqs : reqs[r].calls = <<TextCall(q)>>
         THEN Respond(q, 200, "ok", "")
    ELSE Await(q, TextCall(q))

\* app.post('/send_message') up to `await client.sendText(chatId, message)`
SendMessageStep(q) ==
    IF ~GateOpen THEN NotReady(q)
    ELSE IF MessageInvalid(q)
         THEN Respond(q, 400, "error", MissingMessageFields)
    ELSE Await(q, TextCall(q))


\* variant: a poll waits, without issuing its call, while the call of
\* another request is outstanding
SendPollStepLocked(q) ==
    IF ~GateOpen THEN NotReady(q)
    ELSE IF PollInvalid(q)
         THEN Respond(q, 400, "error", MissingPollFields)
    ELSE IF \E r \in DOMAIN reqs : reqs[r].pc = "awaiting"
         THEN [q EXCEPT !.pc = "awaiting"]
    ELSE Await(q, PollCall(PollChatId(q.contact.val), q.text.val,
                           q.options.val))

\* variant: the body is validated before the gate is tested
SendPollStepValidateFirst(q) ==
    IF PollInvalid(q)
    THEN Respond(q, 400, "error", MissingPollFields)
    ELSE IF ~GateOpen THEN NotReady(q)
    ELSE Await(q, PollCall(PollChatId(q.contact.val), q.text.val,
                           q.options.val))

\* app.post('/send_poll') up to the await of the selected primitive
SendPollStep(q) ==
    IF ~GateOpen THEN NotReady(q)
    ELSE IF PollInvalid(q)
         THEN Respond(q, 400, "error", MissingPollFields)
    ELSE Await(q, PollCall(PollChatId(q.contact.val), q.text.val,
                           q.options.val))


\* variant: every poll success is tagged 'poll'
SuccessAlwaysPoll(q, result) ==
    CASE q.endpoint = "/get_groups" ->
           [Respond(q, 200, "ok", "") EXCEPT !.groups = Groups(result)]
      [] q.endpoint = "/send_message" -> Respond(q, 200, "ok", "")
      [] q.endpoint = "/send_poll" ->
           [Respond(q, 200, "ok", "") EXCEPT !.method = "poll"]

\* the response sent when the awaited call of q returns `result`
Success(q, result) ==
    CASE q.endpoint = "/get_groups" ->
           [Respond(q, 200, "ok", "") EXCEPT !.groups = Groups(result)]
      [] q.endpoint = "/send_message" -> Respond(q, 200, "ok", "")
      [] q.endpoint = "/send_poll" ->
           [Respond(q, 200, "ok", "") EXCEPT
              !.method = Strategy(PollChatId(q.contact.val), q.options.val)]

(* ------------------------------ actions -------------------------------- *)

Requests == 1..MaxReq

\* the server accepts connections once it listens; requests are numbered
\* in the order their handlers start
Accepting(r) == initPc # "notstarted" /\ r = nextReq /\ r <= MaxReq

Handle(r, q) ==
    /\ reqs' = [reqs EXCEPT ![r] = q]
    /\ nextReq' = nextReq + 1
    /\ UNCHANGED <<client, clientReady, initPc>>

\* app.listen callback: initializeClient() runs up to `await wa.create(...)`
Listen ==
    /\ initPc = "notstarted"
    /\ initPc' = "creating"
    /\ UNCHANGED <<client, clientReady, reqs, nextReq>>


\* variant: requests refused before the handshake finished are kept and
\* their sends are issued once the session is ready
CreateResolvesFlush ==
    /\ initPc = "creating"
    /\ client' = HANDLE
    /\ clientReady' = TRUE
    /\ initPc' = "ready"
    /\ reqs' = [r \in DOMAIN reqs |->
          IF /\ reqs[r].pc = "done"
             /\ reqs[r].endpoint = "/send_message"
             /\ ~MessageInvalid(reqs[r])
          THEN Await([reqs[r] EXCEPT !.nresp = 0, !.code = 0, !.status = "",
                                     !.message = ""],
                     TextCall(reqs[r]))
          ELSE reqs[r]]
    /\ UNCHANGED nextReq

\* wa.create resolves, client.onMessage registers the listener
CreateResolves ==
    /\ initPc = "creating"
    /\ client' = HANDLE
    /\ clientReady' = TRUE
    /\ initPc' = "ready"
    /\ UNCHANGED <<reqs, nextReq>>


\* variant: the flag is set before the await and the catch block does not
\* clear it
CreateRejectsFlagSet ==
    /\ initPc = "creating"
    /\ clientReady' = TRUE
    /\ initPc' = "failed"
    /\ UNCHANGED <<client, reqs, nextReq>>

\* wa.create rejects: the catch block runs with client still null
CreateRejects ==
    /\ initPc = "creating"
    /\ clientReady' = FALSE
    /\ initPc' = "failed"
    /\ UNCHANGED <<client, reqs, nextReq>>

\* variant: the flag is set before the listener is registered and the
\* catch block does not clear it
ListenerThrowsFlagSet ==
    /\ initPc = "creating"
    /\ client' = HANDLE
    /\ clientReady' = TRUE
    /\ initPc' = "failed"
    /\ UNCHANGED <<reqs, nextReq>>

\* wa.create resolves but client.onMessage throws: the catch block runs
\* after `client` was assigned
ListenerThrows ==
    /\ initPc = "creating"
    /\ client' = HANDLE
    /\ clientReady' = FALSE
    /\ initPc' = "failed"
    /\ UNCHANGED <<reqs, nextReq>>

GetStatus(r) ==
    /\ Accepting(r)
    /\ Handle(r, StatusStep(Arrive("/status", UndefSeq, UndefStr, UndefSeq)))

GetGroups(r) ==
    /\ Accepting(r)
    /\ Handle(r, GetGroupsStep(Arrive("/get_groups", UndefSeq, UndefStr, UndefSeq)))

OpenWhatsapp(r) ==
    /\ Accepting(r)
    /\ Handle(r, OpenWhatsappStep(Arrive("/open_whatsapp", UndefSeq, UndefStr, UndefSeq)))

SendMessage(r, b) ==
    /\ Accepting(r)
    /\ Handle(r, SendMessageStep(Arrive("/send_message", b.contact, b.text, UndefSeq)))

SendPoll(r, b) ==
    /\ Accepting(r)
    /\ Handle(r, SendPollStep(Arrive("/send_poll", b.contact, b.text, b.options)))

\* the awaited getAllChats call of request r returns `chats`
ChatsReturn(r, chats) ==
    /\ reqs[r].pc = "awaiting"
    /\ reqs[r].endpoint = "/get_groups"
    /\ reqs' = [reqs EXCEPT ![r] =
          Success([Settle(reqs[r], "returned", "") EXCEPT !.result = chats],
                  chats)]
    /\ UNCHANGED <<client, clientReady, initPc, nextReq>>

\* the awaited send call of request r returns
SendReturns(r) ==
    /\ reqs[r].pc = "awaiting"
    /\ reqs[r].endpoint \in {"/send_message", "/send_poll"}
    /\ reqs' = [reqs EXCEPT ![r] = Success(Settle(reqs[r], "returned", ""), <<>>)]
    /\ UNCHANGED <<client, clientReady, initPc, nextReq>>


\* variant: a transport error marks the session not ready and starts the
\* handshake again
CallRaisesReinit(r, e) ==
    /\ reqs[r].pc = "awaiting"
    /\ reqs' = [reqs EXCEPT ![r] = ErrorResponse(Settle(reqs[r], "raised", e), e)]
    /\ clientReady' = FALSE
    /\ initPc' = "creating"
    /\ UNCHANGED <<client, nextReq>>

\* variant: after a failed sendPoll or sendButtons the list primitive is
\* tried before the request is answered
CallRaisesFallback(r, e) ==
    /\ reqs[r].pc = "awaiting"
    /\ reqs' = [reqs EXCEPT ![r] =
          IF /\ reqs[r].endpoint = "/send_poll"
             /\ Len(reqs[r].calls) = 1
             /\ reqs[r].calls[1].prim # "sendListMessage"
          THEN Await(reqs[r],
                     Call("sendListMessage", reqs[r].calls[1].chatId,
                          reqs[r].text.val, <<>>, <<>>,
                          Sections(reqs[r].options.val), "Poll",
                          "Choose an option"))
          ELSE ErrorResponse(Settle(reqs[r], "raised", e), e)]
    /\ UNCHANGED <<client, clientReady, initPc, nextReq>>

\* the awaited call of request r raises an error with message e
CallRaises(r, e) ==
    /\ reqs[r].pc = "awaiting"
    /\ reqs' = [reqs EXCEPT ![r] = ErrorResponse(Settle(reqs[r], "raised", e), e)]
    /\ UNCHANGED <<client, clientReady, initPc, nextReq>>

Init ==
    /\ client = NULL
    /\ clientReady = FALSE
    /\ initPc = "notstarted"
    /\ reqs = [r \in Requests |-> IdleReq]
    /\ nextReq = 1

Next ==
    \/ Listen
    \/ CreateResolves
    \/ CreateRejects
    \/ ListenerThrows
    \/ \E r \in Requests : GetStatus(r)
    \/ \E r \in Requests : GetGroups(r)
    \/ \E r \in Requests : OpenWhatsapp(r)
    \/ \E r \in Requests, b \in MessageBodies : SendMessage(r, b)
    \/ \E r \in Requests, b \in PollBodies : SendPoll(r, b)
    \/ \E r \in Requests, chats \in ChatLists : ChatsReturn(r, chats)
    \/ \E r \in Requests : SendReturns(r)
    \/ \E r \in Requests, e \in ErrMsgs : CallRaises(r, e)

Spec == Init /\ [][Next]_vars

(* ------------------------------ claims --------------------------------- *)

Handled(q) == q.pc # "idle"

Gated == {"/get_groups", "/open_whatsapp", "/send_message", "/send_poll"}

IsNotReadyResponse(q) ==
    /\ q.pc = "done"
    /\ q.nresp = 1
    /\ q.code = 500
    /\ q.status = "error"
    /\ q.message = NotReadyMessage

\* a /send_poll request with every required field and at least one option
ValidPoll(q) ==
    /\ q.endpoint = "/send_poll"
    /\ q.contact.present /\ q.contact.val # <<>>
    /\ q.text.present /\ q.text.val # ""
    /\ q.options.present /\ Len(q.options.val) >= 1

\* a /send_message request with both required fields
ValidMessage(q) ==
    /\ q.endpoint = "/send_message"
    /\ q.contact.present /\ q.contact.val # <<>>
    /\ q.text.present /\ q.text.val # ""

\* C1: a /get_groups, /open_whatsapp, /send_message or /send_poll request
\* handled while the session state is not Ready is answered with the
\* NotReady error (500, fixed message) and makes no transport call.
C1_NotReadyGate ==
    \A r \in Requests :
        (Handled(reqs[r]) /\ reqs[r].endpoint \in Gated /\ reqs[r].seen # "Ready")
            => (IsNotReadyResponse(reqs[r]) /\ reqs[r].calls = <<>>)

\* a valid send handled after the handshake failed with the handle assigned,
\* and a valid poll handled while the handshake was still running
C1_Witness ==
    /\ client = HANDLE
    /\ ValidPoll(reqs[1]) /\ reqs[1].seen = "Initializing"
    /\ IsNotReadyResponse(reqs[1])
    /\ ValidMessage(reqs[2]) /\ reqs[2].seen = "Failed"
    /\ IsNotReadyResponse(reqs[2])

\* C2: a valid /send_poll handled in state Ready whose chat identifier ends
\* with '@g.us' makes the single call sendPoll(chatId, question, options)
\* with the options in the caller's order, whatever their number, and a
\* success response carries method 'poll'.
C2_GroupPoll ==
    \A r \in Requests :
        (ValidPoll(reqs[r]) /\ reqs[r].seen = "Ready"
         /\ Includes(reqs[r].contact.val, "@")
         /\ EndsWith(reqs[r].contact.val, GUS))
            => /\ Len(reqs[r].calls) = 1
               /\ reqs[r].calls[1].prim = "sendPoll"
               /\ reqs[r].calls[1].chatId = reqs[r].contact.val
               /\ reqs[r].calls[1].text = reqs[r].text.val
               /\ reqs[r].calls[1].options = reqs[r].options.val
               /\ (reqs[r].code = 200 => reqs[r].method = "poll")

\* a group poll with one option and one with more than three, both answered
C2_Witness ==
    /\ ValidPoll(reqs[1]) /\ reqs[1].contact.val = GroupDesc
    /\ Len(reqs[1].options.val) = 1
    /\ reqs[1].code = 200 /\ reqs[1].method = "poll"
    /\ ValidPoll(reqs[2]) /\ reqs[2].contact.val = GroupDesc
    /\ Len(reqs[2].options.val) = MaxOptions
    /\ reqs[2].code = 200 /\ reqs[2].method = "poll"

\* C3: a valid /send_poll handled in state Ready whose chat identifier does
\* not end with '@g.us' calls sendButtons (outcome 'buttons') with 1 to 3
\* options and sendListMessage (outcome 'list') with more than 3.
C3_DirectFallback ==
    \A r \in Requests :
        (ValidPoll(reqs[r]) /\ reqs[r].seen = "Ready"
         /\ Len(reqs[r].calls) >= 1
         /\ ~EndsWith(reqs[r].calls[1].chatId, GUS))
            => LET n == Len(reqs[r].options.val)
                   want == IF n <= 3 THEN "sendButtons" ELSE "sendListMessage"
                   tag == IF n <= 3 THEN "buttons" ELSE "list"
               IN /\ Len(reqs[r].calls) = 1
                  /\ reqs[r].calls[1].prim = want
                  /\ (reqs[r].code = 200 => reqs[r].method = tag)

\* exactly three options answered 'buttons', exactly four answered 'list'
C3_Witness ==
    /\ ValidPoll(reqs[1]) /\ reqs[1].contact.val = PhoneDesc
    /\ Len(reqs[1].options.val) = 3
    /\ Len(reqs[1].calls) = 1
    /\ reqs[1].calls[1].prim = "sendButtons"
    /\ reqs[1].code = 200 /\ reqs[1].method = "buttons"
    /\ ValidPoll(reqs[2]) /\ reqs[2].contact.val = DirectDesc
    /\ Len(reqs[2].options.val) = 4
    /\ Len(reqs[2].calls) = 1
    /\ reqs[2].calls[1].prim = "sendListMessage"
    /\ reqs[2].code = 200 /\ reqs[2].method = "list"

\* C4: a /send_poll request makes at most one transport call, exactly one
\* when it is valid and handled in state Ready; after the call raised, no
\* other primitive is tried and the call is not repeated.
C4_OneCall ==
    \A r \in Requests :
        reqs[r].endpoint = "/send_poll"
            => /\ Len(reqs[r].calls) <= 1
               /\ (ValidPoll(reqs[r]) /\ reqs[r].seen = "Ready"
                      => Len(reqs[r].calls) = 1)
               /\ (Len(reqs[r].calls) = 1
                      => reqs[r].calls[1].prim \in
                            {"sendPoll", "sendButtons", "sendListMessage"})

\* a sendPoll and a sendButtons call that raised, each request answered
C4_Witness ==
    /\ reqs[1].endpoint = "/send_poll" /\ reqs[1].outcome = "raised"
    /\ reqs[1].calls[1].prim = "sendPoll" /\ reqs[1].pc = "done"
    /\ reqs[2].endpoint = "/send_poll" /\ reqs[2].outcome = "raised"
    /\ reqs[2].calls[1].prim = "sendButtons" /\ reqs[2].pc = "done"

Sends == {"/send_message", "/send_poll"}

\* C5: for a recipient descriptor that contains '@', the chat identifier
\* handed to the transport by /send_message and by /send_poll is the
\* descriptor unchanged.
C5_PassThrough ==
    \A r \in Requests :
        (reqs[r].endpoint \in Sends /\ Len(reqs[r].calls) >= 1
         /\ Includes(reqs[r].contact.val, "@"))
            => reqs[r].calls[1].chatId = reqs[r].contact.val

\* the digits of d, in their order
RECURSIVE DigitsOf(_)
DigitsOf(d) ==
    IF d = <<>> THEN <<>>
    ELSE IF Head(d) \in Digits THEN <<Head(d)>> \o DigitsOf(Tail(d))
    ELSE DigitsOf(Tail(d))

\* C6: for a non-empty descriptor d without '@', the chat identifier handed
\* to the transport by /send_message and /send_poll is the digits of d in
\* their order followed by '@c.us' ("+31 6" gives "316@c.us"); without any
\* digit it is '@c.us' and the request is still dispatched.
C6_DigitsThenSuffix ==
    \A r \in Requests :
        ((ValidMessage(reqs[r]) \/ ValidPoll(reqs[r]))
         /\ reqs[r].seen = "Ready"
         /\ ~Includes(reqs[r].contact.val, "@"))
            => /\ Len(reqs[r].calls) = 1
               /\ reqs[r].calls[1].chatId = DigitsOf(reqs[r].contact.val) \o CUS
               /\ (reqs[r].contact.val = PhoneDesc
                     => reqs[r].calls[1].chatId = <<"3", "1", "6", "@", "c", ".", "u", "s">>)
               /\ (reqs[r].contact.val = NameDesc
                     => reqs[r].calls[1].chatId = <<"@", "c", ".", "u", "s">>)

\* a formatted number sent as a message and a digit-free name sent as a poll
C6_Witness ==
    /\ ValidMessage(reqs[1]) /\ reqs[1].contact.val = PhoneDesc
    /\ Len(reqs[1].calls) = 1 /\ reqs[1].calls[1].prim = "sendText"
    /\ reqs[1].calls[1].chatId = <<"3", "1", "6">> \o CUS
    /\ ValidPoll(reqs[2]) /\ reqs[2].contact.val = NameDesc
    /\ Len(reqs[2].calls) = 1 /\ reqs[2].calls[1].chatId = CUS

\* the body of q lacks a required field, or has it empty
Incomplete(q) ==
    \/ /\ q.endpoint = "/send_message"
       /\ (~q.contact.present \/ q.contact.val = <<>>
           \/ ~q.text.present \/ q.text.val = "")
    \/ /\ q.endpoint = "/send_poll"
       /\ (~q.contact.present \/ q.contact.val = <<>>
           \/ ~q.text.present \/ q.text.val = ""
           \/ ~q.options.present \/ q.options.val = <<>>)

\* C7: in state Ready a /send_message or /send_poll request with a required
\* field missing or empty (an empty options list included) is answered with
\* HTTP 400, makes no transport call, and the step that handles it leaves
\* the session state unchanged.
C7_Validation ==
    /\ [](\A r \in Requests :
            (Handled(reqs[r]) /\ reqs[r].seen = "Ready" /\ Incomplete(reqs[r]))
                => /\ reqs[r].pc = "done" /\ reqs[r].nresp = 1
                   /\ reqs[r].code = 400 /\ reqs[r].status = "error"
                   /\ reqs[r].calls = <<>>)
    /\ [][\A r \in Requests :
            (~Handled(reqs[r]) /\ Handled(reqs'[r]) /\ Incomplete(reqs'[r]))
                => UNCHANGED <<client, clientReady, initPc>>]_vars

\* a message with an empty text and a poll with an empty options list,
\* both rejected in state Ready
C7_Witness ==
    /\ initPc = "ready"
    /\ reqs[1].endpoint = "/send_message" /\ reqs[1].seen = "Ready"
    /\ reqs[1].contact = Val(PhoneDesc) /\ reqs[1].text = Val("")
    /\ reqs[1].code = 400
    /\ reqs[2].endpoint = "/send_poll" /\ reqs[2].seen = "Ready"
    /\ reqs[2].contact = Val(GroupDesc) /\ reqs[2].options = Val(<<>>)
    /\ reqs[2].code = 400

\* C8: when the transport call of a /get_groups, /send_message or
\* /send_poll request raised an error, the request is answered with HTTP
\* 500 and the error's message unchanged, never with a success, and no
\* further call is made for it.
C8_TransportError ==
    \A r \in Requests :
        reqs[r].outcome = "raised"
            => /\ reqs[r].pc = "done" /\ reqs[r].nresp = 1
               /\ reqs[r].code = 500 /\ reqs[r].status = "error"
               /\ reqs[r].message = reqs[r].error
               /\ reqs[r].method = ""
               /\ Len(reqs[r].calls) = 1

\* a getAllChats call and a sendText call that raised different errors
C8_Witness ==
    /\ reqs[1].endpoint = "/get_groups" /\ reqs[1].outcome = "raised"
    /\ reqs[1].error = "Session closed" /\ reqs[1].message = "Session closed"
    /\ reqs[2].endpoint = "/send_message" /\ reqs[2].outcome = "raised"
    /\ reqs[2].error = "Invalid chat id" /\ reqs[2].message = "Invalid chat id"

\* the number of sendText calls issued by requests 1..n
RECURSIVE SendTextCalls(_)
SendTextCalls(n) ==
    IF n = 0 THEN 0
    ELSE SendTextCalls(n - 1)
         + Cardinality({i \in 1..Len(reqs[n].calls) :
                           reqs[n].calls[i].prim = "sendText"})

\* the valid /send_message requests that passed the readiness gate
PassedSends ==
    {r \in Requests : ValidMessage(reqs[r]) /\ reqs[r].seen = "Ready"}

\* C9: no deduplication: the number of sendText calls equals the number of
\* valid /send_message requests handled in state Ready, and each of them
\* carries its own request's arguments, identical requests included.
C9_NoDedup ==
    /\ SendTextCalls(MaxReq) = Cardinality(PassedSends)
    /\ \A r \in PassedSends :
          /\ Len(reqs[r].calls) = 1
          /\ reqs[r].calls[1].prim = "sendText"
          /\ reqs[r].calls[1].text = reqs[r].text.val

\* two identical sends, the second handled while the first call is pending
C9_Witness ==
    /\ ValidMessage(reqs[1]) /\ ValidMessage(reqs[2])
    /\ reqs[1].contact = reqs[2].contact /\ reqs[1].text = reqs[2].text
    /\ reqs[1].pc = "awaiting" /\ reqs[2].pc = "done" /\ reqs[2].code = 200
    /\ Len(reqs[1].calls) = 1 /\ reqs[1].calls = reqs[2].calls
    /\ SendTextCalls(MaxReq) = 2

Failed == initPc = "failed"

\* C10: once the handshake failed the session state stays Failed with
\* clientReady false, the server still takes requests, every gated request
\* is answered NotReady and no transport call is ever made.
C10_FailedForever ==
    /\ [](Failed =>
            /\ ~clientReady
            /\ \A r \in Requests :
                  /\ reqs[r].calls = <<>>
                  /\ (Handled(reqs[r]) /\ reqs[r].endpoint \in Gated
                         => IsNotReadyResponse(reqs[r]))
            /\ (nextReq <= MaxReq => ENABLED GetStatus(nextReq)))
    /\ [][Failed => Failed']_vars

\* after a failure that left the handle assigned, a group listing and a
\* valid send were both refused
C10_Witness ==
    /\ Failed /\ client = HANDLE
    /\ reqs[1].endpoint = "/get_groups" /\ reqs[1].seen = "Failed"
    /\ IsNotReadyResponse(reqs[1])
    /\ ValidMessage(reqs[2]) /\ reqs[2].seen = "Failed"
    /\ IsNotReadyResponse(reqs[2])

\* C11: requests are taken while the handshake is still running; one that
\* is handled before the session is Ready is answered NotReady in the step
\* that handles it, is never changed afterwards, and never gets a transport
\* call, also after the session became Ready.
C11_RejectedNotQueued ==
    /\ [](\A r \in Requests :
            (Handled(reqs[r]) /\ reqs[r].endpoint \in Gated
             /\ reqs[r].seen # "Ready")
                => (IsNotReadyResponse(reqs[r]) /\ reqs[r].calls = <<>>))
    /\ [][\A r \in Requests :
            (Handled(reqs[r]) /\ reqs[r].seen # "Ready")
                => reqs'[r] = reqs[r]]_vars
    /\ [](initPc = "creating" /\ nextReq <= MaxReq
            => ENABLED (\E b \in MessageBodies : SendMessage(nextReq, b)))

\* a valid send refused during the handshake is still without a call after
\* the session became Ready and a later identical send was delivered
C11_Witness ==
    /\ initPc = "ready"
    /\ ValidMessage(reqs[1]) /\ reqs[1].seen = "Initializing"
    /\ IsNotReadyResponse(reqs[1]) /\ reqs[1].calls = <<>>
    /\ ValidMessage(reqs[2]) /\ reqs[2].seen = "Ready"
    /\ reqs[2].contact = reqs[1].contact
    /\ reqs[2].code = 200

\* C12: GET /status is served in every state in which the server listens,
\* answers 200 {status:'ok', ready:b} with b true exactly when the session
\* state is Ready, makes no transport call, and its step changes neither
\* the session variables nor another request.
C12_StatusNeverFails ==
    /\ [](\A r \in Requests :
            (Handled(reqs[r]) /\ reqs[r].endpoint = "/status")
                => /\ reqs[r].pc = "done" /\ reqs[r].nresp = 1
                   /\ reqs[r].code = 200 /\ reqs[r].status = "ok"
                   /\ reqs[r].ready = (reqs[r].seen = "Ready")
                   /\ reqs[r].calls = <<>>)
    /\ [][\A r \in Requests :
            (~Handled(reqs[r]) /\ reqs'[r].endpoint = "/status")
                => /\ UNCHANGED <<client, clientReady, initPc>>
                   /\ \A o \in Requests \ {r} : reqs'[o] = reqs[o]]_vars
    /\ [](initPc # "notstarted" /\ nextReq <= MaxReq
            => ENABLED GetStatus(nextReq))

\* /status answered ready:false after a failure that left the handle
\* assigned, while a group listing was refused
C12_Witness ==
    /\ Failed /\ client = HANDLE
    /\ reqs[1].endpoint = "/get_groups" /\ IsNotReadyResponse(reqs[1])
    /\ reqs[2].endpoint = "/status" /\ reqs[2].seen = "Failed"
    /\ reqs[2].code = 200 /\ reqs[2].ready = FALSE

\* /status answered ready:true while the transport call of another request
\* was outstanding
C12_WitnessReady ==
    /\ reqs[1].pc = "awaiting"
    /\ reqs[2].endpoint = "/status" /\ reqs[2].code = 200
    /\ reqs[2].ready = TRUE

\* the identifiers 'opt1', 'opt2', ... written out
OptNames == <<"opt1", "opt2", "opt3", "opt4", "opt5", "opt6">>

\* C13: for a non-group chat with 1 to 3 options the sendButtons call gets
\* the resolved chat identifier, the question as body, one button per
\* option in the caller's order with id 'opt<i>' (1-based) and the option
\* as text, the title 'Poll' and the footer 'Reply by tapping a button'.
C13_ButtonsCall ==
    \A r \in Requests :
        (ValidPoll(reqs[r]) /\ reqs[r].seen = "Ready"
         /\ ~EndsWith(reqs[r].contact.val, GUS)
         /\ Len(reqs[r].options.val) <= 3)
            => /\ Len(reqs[r].calls) = 1
               /\ LET c == reqs[r].calls[1]
                      o == reqs[r].options.val
                  IN /\ c.prim = "sendButtons"
                     /\ c.chatId =
                           (IF Includes(reqs[r].contact.val, "@")
                            THEN reqs[r].contact.val
                            ELSE DigitsOf(reqs[r].contact.val) \o CUS)
                     /\ c.text = reqs[r].text.val
                     /\ Len(c.buttons) = Len(o)
                     /\ \A i \in 1..Len(o) :
                           c.buttons[i] = [id |-> OptNames[i], text |-> o[i]]
                     /\ c.title = "Poll"
                     /\ c.footer = "Reply by tapping a button"

\* contact '+31 6', question 'Pizza?', options ['Yes', 'No'] answered
\* {status:'ok', method:'buttons'} after the call written out
C13_Witness ==
    /\ reqs[1].endpoint = "/send_poll" /\ reqs[1].contact = Val(PhoneDesc)
    /\ reqs[1].options = Val(<<"Yes", "No">>)
    /\ reqs[1].calls =
          <<[prim |-> "sendButtons",
             chatId |-> <<"3", "1", "6", "@", "c", ".", "u", "s">>,
             text |-> "Pizza?", options |-> <<>>,
             buttons |-> <<[id |-> "opt1", text |-> "Yes"],
                           [id |-> "opt2", text |-> "No"]>>,
             sections |-> <<>>, title |-> "Poll",
             footer |-> "Reply by tapping a button"]>>
    /\ reqs[1].code = 200 /\ reqs[1].status = "ok"
    /\ reqs[1].method = "buttons"

\* the requests whose transport call is sendListMessage
ListRequests ==
    {r \in Requests :
        Len(reqs[r].calls) = 1 /\ reqs[r].calls[1].prim = "sendListMessage"}

\* C14 as stated: the list call has one section with one row per option in
\* order (rowId 'opt<i>', title the option), and its title, description and
\* action text are the same whatever the request.
C14_FixedTexts ==
    /\ \A r \in ListRequests :
          LET c == reqs[r].calls[1]
              o == reqs[r].options.val
          IN /\ Len(c.sections) = 1
             /\ Len(c.sections[1].rows) = Len(o)
             /\ \A i \in 1..Len(o) :
                   c.sections[1].rows[i] = [rowId |-> OptNames[i], title |-> o[i]]
    /\ \A r1, r2 \in ListRequests :
          /\ reqs[r1].calls[1].title = reqs[r2].calls[1].title
          /\ reqs[r1].calls[1].text = reqs[r2].calls[1].text
          /\ reqs[r1].calls[1].footer = reqs[r2].calls[1].footer

\* C14 amended: for a non-group chat with more than 3 options the call is
\* sendListMessage with one section titled 'Options' whose rows are one per
\* option in the caller's order (rowId 'opt<i>', title the option); the
\* title 'Poll' and the action text 'Choose an option' are fixed, and the
\* description is the question of the request.
C14_ListCall ==
    \A r \in Requests :
        (ValidPoll(reqs[r]) /\ reqs[r].seen = "Ready"
         /\ ~EndsWith(reqs[r].contact.val, GUS)
         /\ Len(reqs[r].options.val) > 3)
            => /\ Len(reqs[r].calls) = 1
               /\ LET c == reqs[r].calls[1]
                      o == reqs[r].options.val
                  IN /\ c.prim = "sendListMessage"
                     /\ Len(c.sections) = 1
                     /\ c.sections[1].title = "Options"
                     /\ Len(c.sections[1].rows) = Len(o)
                     /\ \A i \in 1..Len(o) :
                           c.sections[1].rows[i] =
                              [rowId |-> OptNames[i], title |-> o[i]]
                     /\ c.title = "Poll"
                     /\ c.footer = "Choose an option"
                     /\ c.text = reqs[r].text.val

\* two list polls with different questions, each described by its own
C14_Witness ==
    /\ ListRequests = {1, 2}
    /\ reqs[1].text.val = "Pizza?" /\ reqs[1].calls[1].text = "Pizza?"
    /\ reqs[2].text.val = "Lunch?" /\ reqs[2].calls[1].text = "Lunch?"
    /\ Len(reqs[1].calls[1].sections[1].rows) = 4
    /\ reqs[1].code = 200 /\ reqs[1].method = "list"

\* the display records of the group chats of a chat list, in its order
RECURSIVE GroupRecords(_)
GroupRecords(chats) ==
    IF chats = <<>> THEN <<>>
    ELSE LET c == Head(chats)
             rec == [name |-> c.name, id |-> c.id,
                     members |-> IF c.meta = "parts" THEN c.n ELSE 0]
         IN IF c.isGroup THEN <<rec>> \o GroupRecords(Tail(chats))
            ELSE GroupRecords(Tail(chats))

\* C15: in state Ready /get_groups makes exactly one getAllChats call and,
\* when it returns, answers 200 with one record per group chat, in
\* enumeration order and without any non-group chat; members is the number
\* of participants, or 0 when metadata or participants are missing, which
\* never makes the request fail.
C15_GroupListing ==
    \A r \in Requests :
        (reqs[r].endpoint = "/get_groups" /\ reqs[r].seen = "Ready")
            => /\ Len(reqs[r].calls) = 1
               /\ reqs[r].calls[1].prim = "getAllChats"
               /\ (reqs[r].outcome = "returned"
                     => /\ reqs[r].pc = "done" /\ reqs[r].nresp = 1
                        /\ reqs[r].code = 200 /\ reqs[r].status = "ok"
                        /\ reqs[r].groups = GroupRecords(reqs[r].result))

\* a listing with a non-group chat between two groups, one of them without
\* metadata, and a listing with a group whose metadata has no participants
C15_Witness ==
    /\ reqs[1].endpoint = "/get_groups" /\ reqs[1].code = 200
    /\ Len(reqs[1].result) = 3
    /\ reqs[1].groups =
          <<[name |-> "Family", id |-> "12-3@g.us", members |-> 2],
            [name |-> "Work", id |-> "67-8@g.us", members |-> 0]>>
    /\ reqs[2].endpoint = "/get_groups" /\ reqs[2].code = 200
    /\ Len(reqs[2].result) = 2
    /\ reqs[2].groups[1] = [name |-> "Work", id |-> "67-8@g.us", members |-> 0]

\* the transitions of the session state
Transitions ==
    {<<"Uninitialized", "Initializing">>, <<"Initializing", "Ready">>,
     <<"Initializing", "Failed">>}

\* C16: the session state changes only by Uninitialized -> Initializing,
\* Initializing -> Ready and Initializing -> Failed (so the handshake is
\* started once and Ready and Failed are never left); client and
\* clientReady change only in a step that leaves Initializing, and no step
\* of a request (handled, rejected, returned or failed) changes any of the
\* three; clientReady is true exactly in state Ready.
C16_StateTransitions ==
    /\ [](clientReady <=> SessionState = "Ready")
    /\ [][/\ SessionState' # SessionState
             => <<SessionState, SessionState'>> \in Transitions
          /\ (client' # client \/ clientReady' # clientReady)
             => (SessionState = "Initializing" /\ SessionState' # SessionState)
          /\ reqs' # reqs
             => UNCHANGED <<client, clientReady, initPc>>]_vars

\* in state Ready one request was refused by validation and the transport
\* call of another raised an error
C16_Witness ==
    /\ SessionState = "Ready" /\ clientReady /\ client = HANDLE
    /\ reqs[1].outcome = "raised" /\ reqs[1].code = 500
    /\ reqs[2].code = 400

\* C17: there is no lock around the transport: while the call of one
\* request is outstanding, that request stays as it is and any other
\* request can be handled; a valid send handled meanwhile issues its own
\* call at once, and its call can return while the first is still pending.
C17_NoLock ==
    /\ [](\A r \in Requests :
            (reqs[r].pc = "awaiting" /\ nextReq <= MaxReq)
                => /\ ENABLED GetStatus(nextReq)
                   /\ ENABLED OpenWhatsapp(nextReq)
                   /\ ENABLED GetGroups(nextReq)
                   /\ ENABLED (\E b \in MessageBodies : SendMessage(nextReq, b))
                   /\ ENABLED (\E b \in PollBodies : SendPoll(nextReq, b)))
    /\ [](\A r \in Requests :
            reqs[r].pc = "awaiting"
                => /\ Len(reqs[r].calls) = 1
                   /\ (reqs[r].endpoint = "/get_groups"
                         => ENABLED (\E c \in ChatLists : ChatsReturn(r, c)))
                   /\ (reqs[r].endpoint # "/get_groups"
                         => ENABLED SendReturns(r)))
    /\ [][\A r, o \in Requests :
            (reqs[r].pc = "awaiting" /\ ~Handled(reqs[o]) /\ Handled(reqs'[o]))
                => /\ reqs'[r] = reqs[r]
                   /\ reqs'[o].pc \in {"done", "awaiting"}
                   /\ (reqs'[o].pc = "awaiting" <=> Len(reqs'[o].calls) = 1)
                   /\ ((ValidMessage(reqs'[o]) \/ ValidPoll(reqs'[o])
                        \/ reqs'[o].endpoint = "/get_groups")
                       /\ clientReady
                          => Len(reqs'[o].calls) = 1)]_vars

\* a poll handled while the call of a send was outstanding was delivered
\* and answered while that call is still pending
C17_Witness ==
    /\ ValidMessage(reqs[1]) /\ reqs[1].pc = "awaiting"
    /\ Len(reqs[1].calls) = 1
    /\ ValidPoll(reqs[2]) /\ reqs[2].pc = "done" /\ reqs[2].code = 200
    /\ Len(reqs[2].calls) = 1

\* C18: the gate comes before the validation: a /send_message or
\* /send_poll request with a missing or empty field handled while the
\* session is not Ready gets the NotReady 500 response, not 400.
C18_GateBeforeValidation ==
    \A r \in Requests :
        (Handled(reqs[r]) /\ Incomplete(reqs[r]) /\ reqs[r].seen # "Ready")
            => (IsNotReadyResponse(reqs[r]) /\ reqs[r].code # 400)

\* an incomplete send refused during the handshake and an incomplete poll
\* refused after it failed
C18_Witness ==
    /\ reqs[1].endpoint = "/send_message" /\ Incomplete(reqs[1])
    /\ reqs[1].seen = "Initializing" /\ reqs[1].code = 500
    /\ reqs[2].endpoint = "/send_poll" /\ Incomplete(reqs[2])
    /\ reqs[2].seen = "Failed" /\ reqs[2].code = 500
    /\ reqs[2].message = NotReadyMessage

\* C19: a success response to /send_message, /send_poll or /get_groups is
\* sent only after the request's transport call returned without error (no
\* response while it is pending), and the method tag of a poll success
\* names the primitive that was called.
C19_SuccessAfterCall ==
    \A r \in Requests :
        /\ reqs[r].pc = "awaiting" => reqs[r].nresp = 0
        /\ (reqs[r].endpoint \in {"/send_message", "/send_poll", "/get_groups"}
            /\ reqs[r].code = 200)
              => /\ reqs[r].outcome = "returned"
                 /\ Len(reqs[r].calls) = 1
                 /\ (reqs[r].endpoint = "/send_poll"
                       => <<reqs[r].method, reqs[r].calls[1].prim>> \in
                             {<<"poll", "sendPoll">>, <<"buttons", "sendButtons">>,
                              <<"list", "sendListMessage">>})
                 /\ (reqs[r].endpoint # "/send_poll" => reqs[r].method = "")

\* a buttons poll and a list poll, both answered after their calls returned
C19_Witness ==
    /\ reqs[1].endpoint = "/send_poll" /\ reqs[1].code = 200
    /\ reqs[1].outcome = "returned" /\ reqs[1].method = "buttons"
    /\ reqs[2].endpoint = "/send_poll" /\ reqs[2].code = 200
    /\ reqs[2].outcome = "returned" /\ reqs[2].method = "list"

\* C20: clientReady implies a non-null handle, so the /open_whatsapp gate
\* (clientReady alone) is open exactly when the gate of the other handlers
\* (clientReady and client) is.
C20_ReadyImpliesHandle ==
    /\ clientReady => client # NULL
    /\ OpenGate <=> GateOpen
    /\ OpenGate <=> (clientReady /\ client = HANDLE)

\* the listener registration threw after the handle was assigned: the flag
\* is false, and /open_whatsapp and /get_groups were both refused
C20_Witness ==
    /\ client = HANDLE /\ ~clientReady
    /\ reqs[1].endpoint = "/open_whatsapp" /\ IsNotReadyResponse(reqs[1])
    /\ reqs[2].endpoint = "/get_groups" /\ IsNotReadyResponse(reqs[2])

\* C21: a request gets at most one response on every path; it has exactly
\* one as soon as its handler made no transport call (gate or validation
\* rejection, /status, /open_whatsapp) or its call returned or raised, and
\* none while the call is pending; a response, once sent, is never followed
\* by another or changed.
C21_OneResponse ==
    /\ [](\A r \in Requests :
            /\ reqs[r].nresp <= 1
            /\ (reqs[r].pc = "done" <=> reqs[r].nresp = 1)
            /\ (reqs[r].pc = "awaiting"
                  => (reqs[r].outcome = "" /\ Len(reqs[r].calls) = 1))
            /\ (Handled(reqs[r])
                /\ (reqs[r].calls = <<>> \/ reqs[r].outcome # "")
                  => reqs[r].nresp = 1)
            /\ (reqs[r].nresp = 1
                  => /\ reqs[r].code \in {200, 400, 500}
                     /\ (reqs[r].code = 200 <=> reqs[r].status = "ok")
                     /\ (reqs[r].outcome = "raised" => reqs[r].code = 500)
                     /\ (reqs[r].outcome = "returned" => reqs[r].code = 200)))
    /\ [][\A r \in Requests :
            reqs[r].nresp >= 1 => reqs'[r] = reqs[r]]_vars

\* a send refused by validation and a list poll whose call raised, each
\* answered once
C21_Witness ==
    /\ reqs[1].endpoint = "/send_message" /\ reqs[1].seen = "Ready"
    /\ reqs[1].code = 400 /\ reqs[1].nresp = 1 /\ reqs[1].calls = <<>>
    /\ reqs[2].endpoint = "/send_poll" /\ reqs[2].outcome = "raised"
    /\ Len(reqs[2].calls) = 1 /\ reqs[2].calls[1].prim = "sendListMessage"
    /\ reqs[2].code = 500 /\ reqs[2].nresp = 1

====
